---- MODULE Spec2Model ----
(***************************************************************************)
(* A model of gsap-react-marquee: the GSAPReactMarquee component           *)
(* (src/src/components/gsap-react-marquee.tsx) and its helpers             *)
(* (src/src/components/gsap-reactmarquee.utils.ts).                        *)
(*                                                                         *)
(* Three parts share the module:                                           *)
(*   - the marquee timeline: the timeline the component builds, and what   *)
(*     the ticker, the delayed calls, the Draggable callbacks and the      *)
(*     scroll Observer do to it (Spec, SpecAuto, SpecHover);               *)
(*   - the fill layout: the measurements of the layout effect,             *)
(*     calculateDuplicates and the rendering of the clones (SpecFill);     *)
(*   - the geometry of coreAnimation: the two tweens built for every       *)
(*     animated element (SpecAnim).                                        *)
(*                                                                         *)
(* Units.  Timeline time is counted in ticks, TicksPerCycle ticks to one   *)
(* iteration of the timeline.  Time scales are in hundredths (100 = 1.0),  *)
(* the scrollSpeed prop is in tenths (25 = 2.5).  Lengths are pixels.      *)
(***************************************************************************)
EXTENDS Integers, Sequences, FiniteSets

\* ------------------------------------------------------------------ bounds

\* Ticks of timeline time in one iteration (the track length over the speed).
TicksPerCycle == 2
\* The largest finite value of the loop prop that is tried.
MaxLoop == 1
\* Iterations a behaviour may run through before the model stops the ticker.
MaxCycles == 3
\* Delayed calls that may wait at the same time.
MaxPending == 1

\* The largest length, in pixels, of a content width, a container or a viewport.
MaxPx == 4
\* The largest spacing prop, in pixels.
MaxSpacing == 1
\* The largest number of animated elements.
MaxElems == 2
\* The largest width, in pixels, of an animated element.
MaxWidth == 5

\* ------------------------------------------------------- program constants

\* tl.duration() * 100: how far onReverseComplete moves the playhead.
JumpCycles == 100
\* Math.min(4, ...) and Math.max(1.1, ...) of the scroll speed, in tenths.
MaxScrollSpeed == 40
MinScrollSpeed == 11
\* scrollSpeed = 2.5, in tenths.
DefaultScrollSpeed == 25
\* loop = -1
DefaultLoop == -1
\* A fresh timeline's time scale, in hundredths.
UnitTimeScale == 100
\* useState(1): the duplicates before the first measurement.
InitialDuplicates == 1

\* ------------------------------------------------------------------- state

VARIABLES
  \* props, fixed at construction ("undefined": the prop is not given)
  dir, loop, paused, draggable, followScrollDir, scrollSpeed, pauseOnHover,
  \* the component
  mounted,           \* the useGSAP effect has run
  isVertical, isReverse,
  \* the marquee timeline tl
  tTime,             \* tl.totalTime(), in ticks
  rts,               \* tl.timeScale(), in hundredths; negative: reversed
  tlPaused,          \* tl.paused()
  attached,          \* tl is in its parent timeline (it is rendered by the ticker)
  cycles,            \* iterations the ticker has played through (ghost)
  \* gsap.delayedCall callbacks that wait
  pendingCalls,
  \* Draggable
  draggableCreated, pressed,
  \* the Observer's time scale tweens: "none", "boost" (first tween waits or
  \* runs), "settle" (second tween waits or runs), and the factor's sign
  scrollPhase, scrollSign,
  \* the pointer is over the marquee
  hovering

tlVars == <<dir, loop, paused, draggable, followScrollDir, scrollSpeed,
            pauseOnHover, mounted, isVertical, isReverse, tTime, rts, tlPaused,
            attached, cycles, pendingCalls, draggableCreated, pressed,
            scrollPhase, scrollSign, hovering>>

props == <<dir, loop, paused, draggable, followScrollDir, scrollSpeed, pauseOnHover>>

VARIABLES
  \* the fill layout
  fill,              \* props.fill
  spacing,           \* props.spacing
  childWidth,        \* marqueesChildren[0].offsetWidth
  styleWidth,        \* the container's width as its style sheet lays it out
  innerHeight,       \* window.innerHeight
  parentHeight,      \* containerMarquee.parentNode.offsetHeight
  containerWidth,    \* containerMarquee.offsetWidth, its length along the scroll axis
  marqueeDuplicates, \* the component's state, a number (see Num)
  renderedDuplicates,\* the marqueeDuplicates of the last render
  copies,            \* the .gsap-react-marquee elements in the DOM
  fillPhase          \* "idle", "rendered" (the effect is due), "measured", "settled"

fillVars == <<fill, spacing, childWidth, styleWidth, innerHeight, parentHeight,
              containerWidth, marqueeDuplicates, renderedDuplicates, copies, fillPhase>>

VARIABLES
  \* the geometry of coreAnimation
  alignRotationWithY,
  widths,            \* the width of every element to animate
  startX,            \* marqueesChildren[0].offsetLeft
  elemX,             \* the x, in pixels, the elements have before the animation
  elemXPercent0,     \* the xPercent the elements have before the animation
  elemHeight,        \* item.offsetHeight
  xPercents,         \* xPercents[i], as coreAnimation computes them
  xPercentNow,       \* the xPercent every element has now
  trackLength,       \* the track length coreAnimation computed
  tweens,            \* per element, what its two tweens animate
  animPhase          \* "idle", "ready", "built", "played"

animVars == <<alignRotationWithY, widths, startX, elemX, elemXPercent0, elemHeight,
              xPercents, xPercentNow, trackLength, tweens, animPhase>>

vars == <<tlVars, fillVars, animVars>>

Min(a, b) == IF a < b THEN a ELSE b
Max(a, b) == IF a > b THEN a ELSE b
Abs(a) == IF a < 0 THEN -a ELSE a

\* ------------------------------------------------------------ the props

Dirs == {"undefined", "left", "right", "up", "down"}
Loops == DefaultLoop .. MaxLoop
\* in tenths: below the clamp's range, the default, above the range
ScrollSpeeds == {5, DefaultScrollSpeed, 50}

\* const { dir = "left", ... } = props
DirOrDefault(d) == IF d = "undefined" THEN "left" ELSE d

\* const isVertical = dir === "up" || dir === "down"
IsVerticalDir(d) == DirOrDefault(d) \in {"up", "down"}

\* const isReverse = dir === "down" || dir === "right"
IsReverseDir(d) == DirOrDefault(d) \in {"down", "right"}

\* A clamp that forgets the upper end of the range.
clampedScrollSpeedNoMax(s) == Max(MinScrollSpeed, s)

\* const clampedScrollSpeed = Math.min(4, Math.max(1.1, scrollSpeed))
clampedScrollSpeed(s) == Min(MaxScrollSpeed, Max(MinScrollSpeed, s))

\* ------------------------------------------------------------- the timeline

\* tl.duration(): one iteration.
Duration == TicksPerCycle

\* repeat: loop.  A negative repeat never ends; otherwise the timeline lasts
\* loop + 1 iterations.
Endless(lp) == lp < 0
TotalDuration(lp) == Duration * (lp + 1)

\* Timeline.render clamps the total time to the total duration.
ClampTotalTime(t, lp) ==
  IF t < 0 THEN 0
  ELSE IF Endless(lp) THEN t
  ELSE Min(t, TotalDuration(lp))

\* tl.iteration(): the end of an iteration belongs to that iteration.
Iteration(t) ==
  IF t > 0 /\ t % Duration = 0 THEN (t \div Duration) - 1 ELSE t \div Duration

\* tl.progress(p): the playhead goes to p (in ticks) within the current iteration.
SetProgress(t, p, lp) == ClampTotalTime(Iteration(t) * Duration + p, lp)

\* An onReverseComplete that leaves the playhead where the reverse ended.
onReverseCompleteNoJump(raw, lp) == ClampTotalTime(raw, lp)

\* onReverseComplete() { tl.totalTime(tl.rawTime() + tl.duration() * 100) }
onReverseComplete(raw, lp) == ClampTotalTime(raw + Duration * JumpCycles, lp)

\* tl.reverse(): reversed(true), the time scale becomes negative.
Reversed(ts) == IF ts < 0 THEN ts ELSE -ts
\* tl.play(): reversed(false), the time scale becomes positive.
Played(ts) == IF ts < 0 THEN -ts ELSE ts

\* totalTime() and timeScale() put a timeline that had completed back into its
\* parent when the playhead has room to move in the direction of the time scale.
HasRoom(ts, t, lp) ==
  \/ ts < 0 /\ t > 0
  \/ ts > 0 /\ (Endless(lp) \/ t < TotalDuration(lp))
Reattached(att, ts, t, lp) == att \/ HasRoom(ts, t, lp)

\* The timeline is playing: the ticker moves its playhead.
Playing == mounted /\ attached /\ ~tlPaused /\ rts # 0

\* ---------------------------------------------------------------- actions

\* Before the effect runs: no timeline yet.
InitTimeline ==
  /\ mounted = FALSE
  /\ isVertical = FALSE /\ isReverse = FALSE
  /\ tTime = 0 /\ rts = UnitTimeScale /\ tlPaused = TRUE /\ attached = FALSE
  /\ cycles = 0
  /\ pendingCalls = 0
  /\ draggableCreated = FALSE /\ pressed = FALSE
  /\ scrollPhase = "none" /\ scrollSign = 1
  /\ hovering = FALSE

\* A number as JavaScript has it: a finite integer, or +Infinity.
Num(n) == [finite |-> TRUE, value |-> n]
PosInfinity == [finite |-> FALSE, value |-> 0]

\* The fill layout is not looked at.
IdleLayout ==
  /\ fill = FALSE
  /\ childWidth = 0 /\ styleWidth = 0 /\ innerHeight = 0 /\ parentHeight = 0
  /\ containerWidth = 0
  /\ marqueeDuplicates = Num(InitialDuplicates)
  /\ renderedDuplicates = Num(InitialDuplicates)
  /\ copies = 0
  /\ fillPhase = "idle"

IdleFill == spacing = 0 /\ IdleLayout

\* The geometry of the animation is not looked at.
IdleAnim ==
  /\ alignRotationWithY = FALSE
  /\ widths = <<>> /\ startX = 0 /\ elemX = 0 /\ elemXPercent0 = 0 /\ elemHeight = 0
  /\ xPercents = <<>> /\ xPercentNow = <<>> /\ trackLength = 0 /\ tweens = <<>>
  /\ animPhase = "idle"

\* The props of a marquee that may be dragged and may follow the scroll.
Init ==
  /\ dir \in Dirs
  /\ loop \in Loops
  /\ paused \in BOOLEAN
  /\ draggable \in BOOLEAN
  /\ followScrollDir \in BOOLEAN
  /\ scrollSpeed \in (IF followScrollDir THEN ScrollSpeeds ELSE {DefaultScrollSpeed})
  /\ pauseOnHover = FALSE
  /\ InitTimeline
  /\ IdleFill
  /\ IdleAnim

\* The props of a marquee that may be hovered.
InitHover ==
  /\ dir \in Dirs
  /\ loop \in Loops
  /\ paused \in BOOLEAN
  /\ draggable = FALSE
  /\ followScrollDir = FALSE
  /\ scrollSpeed = DefaultScrollSpeed
  /\ pauseOnHover \in BOOLEAN
  /\ InitTimeline
  /\ IdleFill
  /\ IdleAnim

\* The reverse branch of coreAnimation: with paused it pauses and returns (before
\* the Draggable is created); otherwise tl.progress(1).pause() and a delayed call
\* that will reverse the timeline.
coreAnimationReverse(p) ==
  IF p
  THEN /\ tlPaused' = TRUE
       /\ tTime' = 0
       /\ pendingCalls' = 0
       /\ draggableCreated' = FALSE
  ELSE /\ tlPaused' = TRUE
       /\ tTime' = SetProgress(0, Duration, loop)
       /\ pendingCalls' = 1
       /\ draggableCreated' = draggable

\* The forward case of coreAnimation: the timeline is left as it was built.
coreAnimationForward(p) ==
  /\ tlPaused' = p
  /\ tTime' = 0
  /\ pendingCalls' = 0
  /\ draggableCreated' = draggable

\* The useGSAP effect: gsap.timeline({ paused, repeat: loop, onReverseComplete }),
\* coreAnimation(...), Observer.create(...).  The component's call gives
\* coreAnimation five arguments where it declares seven; the model gives each
\* parameter the value its name asks for (the props as props).  The start delay
\* of the timeline is not counted: a delayed call runs at any later step.
Mount ==
  /\ ~mounted
  /\ mounted' = TRUE
  /\ isVertical' = IsVerticalDir(dir)
  /\ isReverse' = IsReverseDir(dir)
  /\ rts' = UnitTimeScale
  /\ attached' = TRUE
  /\ IF IsReverseDir(dir) THEN coreAnimationReverse(paused)
                          ELSE coreAnimationForward(paused)
  /\ UNCHANGED <<fillVars, animVars, props, cycles, pressed, scrollPhase, scrollSign, hovering>>

\* One more iteration is counted when the playhead comes to an iteration's edge.
CyclesAfter(t) == IF t % Duration = 0 THEN cycles + 1 ELSE cycles

\* The ticker renders the timeline: the playhead moves by one tick in the
\* direction of the time scale.  Arriving at the end of the last iteration the
\* timeline completes and leaves its parent; arriving at the start it is removed
\* from its parent and onReverseComplete is called, whose totalTime() puts it back.
Tick ==
  /\ Playing
  /\ cycles < MaxCycles
  /\ \/ /\ rts > 0
        /\ Endless(loop) \/ tTime < TotalDuration(loop)
        /\ tTime' = tTime + 1
        /\ cycles' = CyclesAfter(tTime + 1)
        /\ attached' = (Endless(loop) \/ tTime + 1 < TotalDuration(loop))
     \/ /\ rts < 0
        /\ tTime > 0
        /\ tTime' = IF tTime - 1 = 0 THEN onReverseComplete(0, loop) ELSE tTime - 1
        /\ cycles' = CyclesAfter(tTime - 1)
        /\ attached' = (tTime - 1 # 0 \/ HasRoom(rts, onReverseComplete(0, loop), loop))
  /\ UNCHANGED <<fillVars, animVars, props, mounted, isVertical, isReverse, rts, tlPaused, pendingCalls,
                 draggableCreated, pressed, scrollPhase, scrollSign, hovering>>

\* gsap.delayedCall(delay, () => { tl.reverse(); tl.eventCallback(...) })
DelayedCall ==
  /\ pendingCalls > 0
  /\ pendingCalls' = pendingCalls - 1
  /\ rts' = Reversed(rts)
  /\ tlPaused' = FALSE
  /\ attached' = Reattached(attached, Reversed(rts), tTime, loop)
  /\ UNCHANGED <<fillVars, animVars, props, mounted, isVertical, isReverse, tTime, cycles,
                 draggableCreated, pressed, scrollPhase, scrollSign, hovering>>

\* Draggable onPress: gsap.killTweensOf(tl); tl.pause(); startProgress = tl.progress()
onPress ==
  /\ mounted /\ draggableCreated /\ ~pressed
  /\ pressed' = TRUE
  /\ scrollPhase' = "none"
  /\ tlPaused' = TRUE
  /\ UNCHANGED <<fillVars, animVars, props, mounted, isVertical, isReverse, tTime, rts, attached, cycles,
                 pendingCalls, draggableCreated, scrollSign, hovering>>

\* Draggable onDrag and onThrowUpdate: tl.progress(wrap(startProgress + axis * ratio)),
\* a progress in [0, 1).
align ==
  /\ pressed
  /\ \E p \in 0 .. (Duration - 1) :
       /\ tTime' = SetProgress(tTime, p, loop)
       /\ attached' = Reattached(attached, IF tlPaused THEN 0 ELSE rts,
                                 SetProgress(tTime, p, loop), loop)
  /\ UNCHANGED <<fillVars, animVars, props, mounted, isVertical, isReverse, rts, tlPaused, cycles,
                 pendingCalls, draggableCreated, pressed, scrollPhase, scrollSign,
                 hovering>>

\* onThrowComplete of a forward marquee: tl.play()
onThrowCompleteForward ==
  /\ rts' = Played(rts)
  /\ tlPaused' = FALSE
  /\ attached' = Reattached(attached, Played(rts), tTime, loop)
  /\ UNCHANGED pendingCalls

\* onThrowComplete of a reverse marquee: with paused, tl.pause() and return;
\* otherwise tl.progress(tl.progress()).pause() and a delayed call.
onThrowCompleteReverse ==
  /\ tlPaused' = TRUE
  /\ pendingCalls' = IF paused THEN pendingCalls ELSE pendingCalls + 1
  /\ UNCHANGED <<rts, attached>>

\* Draggable onThrowComplete (the release, and the end of the inertia throw).
onThrowComplete ==
  /\ pressed
  /\ isReverse => pendingCalls < MaxPending
  /\ pressed' = FALSE
  /\ IF isReverse THEN onThrowCompleteReverse ELSE onThrowCompleteForward
  /\ UNCHANGED <<fillVars, animVars, props, mounted, isVertical, isReverse, tTime, cycles,
                 draggableCreated, scrollPhase, scrollSign, hovering>>

\* let factor = clampedScrollSpeed * (isReverse ? -1 : 1);
\* if (self.deltaY < 0) factor *= -1;                         (in tenths)
ScrollFactor(rev, deltaY, s) ==
  clampedScrollSpeed(s) * (IF rev THEN -1 ELSE 1) * (IF deltaY < 0 THEN -1 ELSE 1)

\* timeScale: factor * clampedScrollSpeed                  (in hundredths)
BoostTimeScale(factor, s) == factor * clampedScrollSpeed(s)

\* timeScale: factor / clampedScrollSpeed                  (in hundredths)
SettleTimeScale(factor, s) == (factor * UnitTimeScale) \div clampedScrollSpeed(s)

\* Observer onChangeY: nothing without followScrollDir; otherwise a new timeline
\* of two time scale tweens, the first of which overwrites the tweens of tl.
onChangeY ==
  /\ mounted
  /\ \E deltaY \in {-1, 1} :
       IF ~followScrollDir
       THEN UNCHANGED <<scrollPhase, scrollSign>>
       ELSE /\ scrollPhase' = "boost"
            /\ scrollSign' = IF ScrollFactor(isReverse, deltaY, scrollSpeed) < 0
                             THEN -1 ELSE 1
  /\ UNCHANGED <<fillVars, animVars, props, mounted, isVertical, isReverse, tTime, rts, tlPaused,
                 attached, cycles, pendingCalls, draggableCreated, pressed, hovering>>

\* tl.timeScale(v) as the tweens set it: a paused timeline keeps its pause.
SetTimeScale(v) ==
  /\ rts' = v
  /\ attached' = Reattached(attached, IF tlPaused THEN 0 ELSE v, tTime, loop)

\* The first tween ends: .to(tl, { timeScale: factor * clampedScrollSpeed, duration: 0.2 })
\* (every value the tween passes through lies between the old and the new one).
ScrollBoost ==
  /\ scrollPhase = "boost"
  /\ SetTimeScale(BoostTimeScale(scrollSign * clampedScrollSpeed(scrollSpeed), scrollSpeed))
  /\ scrollPhase' = "settle"
  /\ UNCHANGED <<fillVars, animVars, props, mounted, isVertical, isReverse, tTime, tlPaused, cycles,
                 pendingCalls, draggableCreated, pressed, scrollSign, hovering>>

\* The second tween ends: .to(tl, { timeScale: factor / clampedScrollSpeed, duration: 1 }, "+=0.3")
ScrollSettle ==
  /\ scrollPhase = "settle"
  /\ SetTimeScale(SettleTimeScale(scrollSign * clampedScrollSpeed(scrollSpeed), scrollSpeed))
  /\ scrollPhase' = "none"
  /\ UNCHANGED <<fillVars, animVars, props, mounted, isVertical, isReverse, tTime, tlPaused, cycles,
                 pendingCalls, draggableCreated, pressed, scrollSign, hovering>>

\* The pointer enters or leaves the marquee.  The component renders its elements
\* without pointer handlers and never reads pauseOnHover: nothing else changes.
PointerEnter ==
  /\ mounted /\ ~hovering
  /\ hovering' = TRUE
  /\ UNCHANGED <<fillVars, animVars, props, mounted, isVertical, isReverse, tTime, rts, tlPaused,
                 attached, cycles, pendingCalls, draggableCreated, pressed,
                 scrollPhase, scrollSign>>

PointerLeave ==
  /\ mounted /\ hovering
  /\ hovering' = FALSE
  /\ UNCHANGED <<fillVars, animVars, props, mounted, isVertical, isReverse, tTime, rts, tlPaused,
                 attached, cycles, pendingCalls, draggableCreated, pressed,
                 scrollPhase, scrollSign>>

\* The marquee with its user: the ticker, the delayed calls, the drag, the wheel.
Next ==
  \/ Mount
  \/ Tick
  \/ DelayedCall
  \/ onPress
  \/ align
  \/ onThrowComplete
  \/ onChangeY
  \/ ScrollBoost
  \/ ScrollSettle

Spec == Init /\ [][Next]_vars

\* The marquee on its own: no pointer and no wheel.
NextAuto ==
  \/ Mount
  \/ Tick
  \/ DelayedCall

SpecAuto == Init /\ [][NextAuto]_vars

\* The marquee under a pointer that enters and leaves.
NextHover ==
  \/ Mount
  \/ Tick
  \/ DelayedCall
  \/ PointerEnter
  \/ PointerLeave

SpecHover == InitHover /\ [][NextHover]_vars

\* ============================================================ the fill layout

\* The props that do not matter to the layout, at their defaults.
DefaultTimelineProps ==
  /\ loop = DefaultLoop
  /\ paused = FALSE
  /\ draggable = FALSE
  /\ followScrollDir = FALSE
  /\ scrollSpeed = DefaultScrollSpeed
  /\ pauseOnHover = FALSE

\* Math.ceil(a / b) for a > b >= 0: a division by zero gives +Infinity.
MathCeilDiv(a, b) ==
  IF b = 0 THEN PosInfinity ELSE Num((a + b - 1) \div b)

\* A calculateDuplicates that rounds down and measures every marquee by its
\* container.
calculateDuplicatesFloor(marqueeChildrenWidth, containerMarqueeWidth, vertical, pfill, winHeight) ==
  IF ~pfill THEN Num(1)
  ELSE IF marqueeChildrenWidth < containerMarqueeWidth
       THEN (IF marqueeChildrenWidth = 0 THEN PosInfinity
             ELSE Num(containerMarqueeWidth \div marqueeChildrenWidth))
       ELSE Num(1)

\* calculateDuplicates(marqueeChildrenWidth, containerMarqueeWidth, isVertical, props),
\* with props.fill and window.innerHeight as parameters.
calculateDuplicates(marqueeChildrenWidth, containerMarqueeWidth, vertical, pfill, winHeight) ==
  IF ~pfill THEN Num(1)
  ELSE LET targetWidth == IF vertical THEN winHeight ELSE containerMarqueeWidth
       IN  IF marqueeChildrenWidth < targetWidth
           THEN MathCeilDiv(targetWidth, marqueeChildrenWidth)
           ELSE Num(1)

\* setupContainerStyles: a vertical marquee's container gets the width
\* parent.offsetHeight; a horizontal one keeps its own.
setupContainerStyles(vertical, ownWidth, parentH) ==
  IF vertical THEN parentH ELSE ownWidth

\* clonedMarquees: null unless marqueeDuplicates is finite and positive, otherwise
\* marqueeDuplicates elements.
clonedMarquees(d) ==
  IF ~d.finite \/ d.value <= 0 THEN 0 ELSE d.value

\* The component's JSX: the marquee of marqueeRef and the clones.
RenderedCopies(d) == 1 + clonedMarquees(d)

\* The measurements the layout effect may meet (a window that shows the page has
\* a height), and the first render.
InitFill ==
  /\ dir \in Dirs
  /\ DefaultTimelineProps
  /\ InitTimeline
  /\ IdleAnim
  /\ fill \in BOOLEAN
  /\ spacing \in 0 .. MaxSpacing
  /\ childWidth \in 0 .. MaxPx
  /\ styleWidth \in 0 .. MaxPx
  /\ innerHeight \in 1 .. MaxPx
  /\ parentHeight \in 0 .. MaxPx
  /\ containerWidth = styleWidth
  /\ marqueeDuplicates = Num(InitialDuplicates)
  /\ renderedDuplicates = Num(InitialDuplicates)
  /\ copies = RenderedCopies(Num(InitialDuplicates))
  /\ fillPhase = "rendered"

\* The useGSAP effect up to setMarqueeDuplicates: setupContainerStyles, the
\* measurements, calculateDuplicates.  It runs after the first render and after
\* every render that changed marqueeDuplicates.
FillEffect ==
  /\ fillPhase = "rendered"
  /\ containerWidth' = setupContainerStyles(IsVerticalDir(dir), styleWidth, parentHeight)
  /\ marqueeDuplicates' =
       calculateDuplicates(childWidth,
                           setupContainerStyles(IsVerticalDir(dir), styleWidth, parentHeight),
                           IsVerticalDir(dir), fill, innerHeight)
  /\ fillPhase' = "measured"
  /\ UNCHANGED <<tlVars, animVars, fill, spacing, childWidth, styleWidth, innerHeight,
                 parentHeight, renderedDuplicates, copies>>

\* The state set by the effect is the state of the last render: no render follows.
FillSettle ==
  /\ fillPhase = "measured"
  /\ marqueeDuplicates = renderedDuplicates
  /\ fillPhase' = "settled"
  /\ UNCHANGED <<tlVars, animVars, fill, spacing, childWidth, styleWidth, innerHeight,
                 parentHeight, containerWidth, marqueeDuplicates, renderedDuplicates,
                 copies>>

\* The state changed: the component renders again, with the clones of the new
\* marqueeDuplicates, and the effect is due again.
FillRender ==
  /\ fillPhase = "measured"
  /\ marqueeDuplicates # renderedDuplicates
  /\ renderedDuplicates' = marqueeDuplicates
  /\ copies' = RenderedCopies(marqueeDuplicates)
  /\ fillPhase' = "rendered"
  /\ UNCHANGED <<tlVars, animVars, fill, spacing, childWidth, styleWidth, innerHeight,
                 parentHeight, containerWidth, marqueeDuplicates>>

NextFill ==
  \/ FillEffect
  \/ FillSettle
  \/ FillRender

SpecFill == InitFill /\ [][NextFill]_vars

\* The length the rendered copies cover along the scroll axis, gaps included.
CopiesSpan == copies * childWidth + (copies - 1) * spacing

\* ================================================ the geometry of coreAnimation

\* (px / w) * 100 and (percent / 100) * w.  The widths tried divide 100, so that
\* every percentage the animation computes is a whole number.
Percent(px, w) == (px * 100) \div w
Px(percent, w) == (percent * w) \div 100

ElementWidths == {w \in 1 .. MaxWidth : 100 % w = 0}
ElementLists == UNION {[1 .. n -> ElementWidths] : n \in 1 .. MaxElems}

\* The elements lie in a row, spacing pixels apart (the container's gap), the
\* first at startX: item.offsetLeft.
RECURSIVE OffsetLeft(_, _, _, _)
OffsetLeft(ws, i, sp, sx) ==
  IF i = 1 THEN sx ELSE OffsetLeft(ws, i - 1, sp, sx) + ws[i - 1] + sp

\* xPercents[i] = (x / w) * 100 + xPercent
XPercentOf(x, w, xp) == Percent(x, w) + xp

\* const curX = (xPercents[i] / 100) * widths[i]
CurX(xps, ws, i) == Px(xps[i], ws[i])

\* const trackLength = elementsToAnimate[latestPos].offsetLeft
\*   + (xPercents[latestPos] / 100) * widths[latestPos] - startX
\*   + elementsToAnimate[latestPos].offsetWidth + spacing
TrackLength(xps, ws, sp, sx) ==
  LET latestPos == Len(ws)
  IN  OffsetLeft(ws, latestPos, sp, sx) + Px(xps[latestPos], ws[latestPos]) - sx
        + ws[latestPos] + sp

\* const distanceToStart = item.offsetLeft + curX - startX
DistanceToStart(xps, ws, i, sp, sx) == OffsetLeft(ws, i, sp, sx) + CurX(xps, ws, i) - sx

\* const distanceToLoop = alignRotationWithY
\*   ? distanceToStart + item.offsetHeight - spacing : distanceToStart + widths[i]
DistanceToLoop(xps, ws, i, sp, sx, alignY, h) ==
  IF alignY THEN DistanceToStart(xps, ws, i, sp, sx) + h - sp
           ELSE DistanceToStart(xps, ws, i, sp, sx) + ws[i]

\* tl.to(item, { xPercent: ((curX - distanceToLoop) / widths[i]) * 100, ... }, 0)
Part1End(curX, distanceToLoop, w) == Percent(curX - distanceToLoop, w)

\* A second tween that starts where the first one ended.
Part2StartNoTrack(curX, distanceToLoop, track, w) == Percent(curX - distanceToLoop, w)

\* .fromTo(item, { xPercent: ((curX - distanceToLoop + trackLength) / widths[i]) * 100 }, ...
Part2Start(curX, distanceToLoop, track, w) == Percent(curX - distanceToLoop + track, w)

\* ... { xPercent: xPercents[i], ... }, distanceToLoop / speed)
Part2End(xps, i) == xps[i]

\* The two tweens coreAnimation adds to the timeline for element i.
ElementTweens(xps, ws, i, sp, sx, alignY, h) ==
  LET curX == CurX(xps, ws, i)
      distanceToLoop == DistanceToLoop(xps, ws, i, sp, sx, alignY, h)
      track == TrackLength(xps, ws, sp, sx)
  IN  [part1End   |-> Part1End(curX, distanceToLoop, ws[i]),
       part2Start |-> Part2Start(curX, distanceToLoop, track, ws[i]),
       part2End   |-> Part2End(xps, i)]

\* The elements coreAnimation may be given.
InitAnim ==
  /\ dir \in Dirs
  /\ DefaultTimelineProps
  /\ InitTimeline
  /\ IdleLayout
  /\ spacing \in 0 .. MaxSpacing
  /\ alignRotationWithY \in BOOLEAN
  /\ widths \in ElementLists
  /\ startX \in 0 .. MaxSpacing
  /\ elemX \in 0 .. MaxSpacing
  /\ elemXPercent0 \in {-100, 0}
  /\ elemHeight \in ElementWidths
  /\ xPercents = <<>> /\ xPercentNow = <<>> /\ trackLength = 0 /\ tweens = <<>>
  /\ animPhase = "ready"

\* coreAnimation up to tl.delay(delay): gsap.set(elementsToAnimate, { xPercent }),
\* gsap.set(elementsToAnimate, { x: 0 }), trackLength, the tweens of every element.
coreAnimation ==
  /\ animPhase = "ready"
  /\ LET xps == [i \in 1 .. Len(widths) |-> XPercentOf(elemX, widths[i], elemXPercent0)]
     IN  /\ xPercents' = xps
         /\ xPercentNow' = xps
         /\ trackLength' = TrackLength(xps, widths, spacing, startX)
         /\ tweens' = [i \in 1 .. Len(widths) |->
                         ElementTweens(xps, widths, i, spacing, startX,
                                       alignRotationWithY, elemHeight)]
  /\ animPhase' = "built"
  /\ UNCHANGED <<tlVars, fillVars, alignRotationWithY, widths, startX, elemX,
                 elemXPercent0, elemHeight>>

\* The timeline plays one iteration to its end: every element is where the last
\* of its tweens ends.
PlayCycle ==
  /\ animPhase = "built"
  /\ xPercentNow' = [i \in 1 .. Len(widths) |-> tweens[i].part2End]
  /\ animPhase' = "played"
  /\ UNCHANGED <<tlVars, fillVars, alignRotationWithY, widths, startX, elemX,
                 elemXPercent0, elemHeight, xPercents, trackLength, tweens>>

NextAnim ==
  \/ coreAnimation
  \/ PlayCycle

SpecAnim == InitAnim /\ [][NextAnim]_vars

\* ===================================================================== claims

\* C1.  With loop at its default (-1) and paused = false, a marquee in any
\* direction never stops on its own: once its start has been scheduled and run, the
\* timeline is playing; a forward timeline plays forwards, and a reverse timeline
\* plays backwards and is never left at its start, because onReverseComplete moves
\* it forward again.  (SpecAuto)
C1_EndlessMarqueeKeepsPlaying ==
  (mounted /\ loop = DefaultLoop /\ ~paused /\ pendingCalls = 0) =>
    /\ Playing
    /\ IF isReverse THEN rts < 0 /\ tTime > 0 ELSE rts > 0

\* A reverse marquee that played back to its start, was moved forward by
\* onReverseComplete and went on playing backwards.
C1_Witness ==
  /\ mounted /\ isReverse /\ loop = DefaultLoop /\ ~paused
  /\ Playing /\ rts < 0
  /\ tTime = Duration * JumpCycles - 1

\* C2.  When paused is true the marquee timeline is never playing, whatever the
\* drag presses, drags, throw completions, scroll events and delayed calls.  (Spec)
C2_PausedNeverPlays ==
  (mounted /\ paused) => ~Playing

\* C3.  For a finite loop = n >= 0 the marquee plays a bounded number of
\* iterations, the n repeats after the first one, and then stops.  (SpecAuto)
C3_FiniteLoopStops ==
  (mounted /\ loop >= 0) => cycles <= loop + 1

\* C4.  In fill mode, for every direction and every positive content width, the
\* rendered copies (the original and the clones) span at least the length of the
\* container along the scroll axis.  (SpecFill)
C4_FillCoversContainer ==
  (fillPhase = "settled" /\ fill /\ childWidth > 0) => CopiesSpan >= containerWidth

\* C5.  calculateDuplicates returns a finite integer that is at least 1 for every
\* input, a content width of 0 included.  (SpecFill)
C5_DuplicatesFiniteAtLeastOne ==
  (fillPhase \in {"measured", "settled"}) =>
    marqueeDuplicates.finite /\ marqueeDuplicates.value >= 1

\* The least number of contents of width w that cover the length target.
LeastCover(target, w) ==
  CHOOSE n \in 1 .. target : n * w >= target /\ (n - 1) * w < target

\* C6.  calculateDuplicates returns 1 when fill is off; when fill is on it returns
\* ceil(target / contentWidth) if contentWidth < target and 1 otherwise, where target
\* is the viewport height for a vertical marquee and the container width for a
\* horizontal one.  The ceiling is the least number of contents that cover the
\* target, and +Infinity for a content of width 0.  (SpecFill)
C6_DuplicatesFormula ==
  (fillPhase = "measured") =>
    LET target == IF dir \in {"up", "down"} THEN innerHeight ELSE containerWidth
    IN  marqueeDuplicates =
          IF ~fill THEN Num(1)
          ELSE IF childWidth < target
               THEN (IF childWidth = 0 THEN PosInfinity
                     ELSE Num(LeastCover(target, childWidth)))
               ELSE Num(1)

\* A vertical fill marquee whose content does not divide the viewport height: the
\* division is rounded up.
C6_Witness ==
  /\ fillPhase = "measured" /\ fill /\ dir \in {"up", "down"}
  /\ childWidth > 0 /\ innerHeight % childWidth # 0
  /\ marqueeDuplicates.finite /\ marqueeDuplicates.value >= 2
  /\ styleWidth # innerHeight /\ parentHeight # innerHeight

\* C7.  When dir is not provided, the marquee moves in the "right" direction: it
\* is a horizontal, reverse marquee.  (SpecAuto)
C7_DefaultDirIsRight ==
  (mounted /\ dir = "undefined") => (isReverse /\ ~isVertical)

\* C8.  When pauseOnHover is true, the marquee is paused while the pointer is
\* over it.  (SpecHover)
C8_HoverPauses ==
  (mounted /\ pauseOnHover /\ hovering) => ~Playing

\* C9, as claimed.  The magnitude of the time scale the timeline is driven to
\* never exceeds 4 (time scales are in hundredths, scroll speeds in tenths).  (Spec)
C9_TimeScaleAtMostFour ==
  mounted => Abs(rts) * 10 <= MaxScrollSpeed * UnitTimeScale

\* C9, amended.  The scroll speed is clamped to at most 4, and the magnitude of the
\* time scale never exceeds the square of the clamped scroll speed: never 16.  (Spec)
C9_TimeScaleAtMostSquare ==
  mounted =>
    /\ clampedScrollSpeed(scrollSpeed) <= MaxScrollSpeed
    /\ Abs(rts) <= clampedScrollSpeed(scrollSpeed) * clampedScrollSpeed(scrollSpeed)
    /\ Abs(rts) <= MaxScrollSpeed * MaxScrollSpeed

\* A scroll speed above 4 was given, and a scroll event drove the time scale to 16.
C9_Witness ==
  /\ mounted /\ followScrollDir /\ scrollSpeed > MaxScrollSpeed
  /\ scrollPhase = "settle"
  /\ Abs(rts) = MaxScrollSpeed * MaxScrollSpeed

\* C10.  For every animated element, the second part of its animation starts
\* exactly trackLength pixels to the right of where the first part ends, and ends at
\* the element's initial xPercent: after one full cycle every element is back at the
\* position it had before the animation.  (SpecAnim)
C10_SeamlessLoop ==
  (animPhase \in {"built", "played"}) =>
    \A i \in 1 .. Len(widths) :
      /\ Px(tweens[i].part2Start, widths[i]) - Px(tweens[i].part1End, widths[i])
           = trackLength
      /\ tweens[i].part2End = xPercents[i]
      /\ Px(tweens[i].part2End, widths[i]) = elemX + Px(elemXPercent0, widths[i])
      /\ animPhase = "played" => xPercentNow[i] = xPercents[i]

\* Two elements of different widths, apart and displaced, have played a cycle.
C10_Witness ==
  /\ animPhase = "played"
  /\ Len(widths) >= 2 /\ widths[1] # widths[2]
  /\ spacing > 0 /\ elemX > 0 /\ trackLength > 0
  /\ \A i \in 1 .. Len(widths) : tweens[i].part2Start # tweens[i].part1End

====
